---- MODULE Spec2Model ----
(***************************************************************************)
(* esp-vision (src/src/main.rs): the drag-select / CAMShift tracking loop   *)
(* and its mouse callback.  The vision library (capture, histogram,         *)
(* camshift) is external: a frame is an opaque identifier, a histogram is   *)
(* the pair (frame, region) it was computed from, and the tracker's result  *)
(* is any rectangle of a small set.                                         *)
(***************************************************************************)
EXTENDS Integers, Sequences, TLC

\* Bounds of the model.
NumFrames == 2      \* distinct camera images cap.read may deliver
MaxExtent == 3      \* largest width and height of a synthetic tracker result
MaxCount == 2       \* the history counters saturate here ("MaxCount or more")

Frames == 1..NumFrames
NoFrame == 0        \* Mat::new(): no image yet

\* Pointer positions the window reports.  DragPoints: the positions of the
\* documented scenarios and one position right of, and not below, (5, 5).
Points == {<<5, 5>>, <<10, 10>>}
DragPoints == {<<5, 5>>, <<10, 10>>, <<60, 80>>, <<60, 5>>}

\* MouseEventTypes variants the callback can be handed.
EventKinds == {"LButtonDown", "LButtonUp", "MouseMove", "RButtonDown"}

Rect(x, y, w, h) == [x |-> x, y |-> y, width |-> w, height |-> h]
DefaultRect == Rect(0, 0, 0, 0)

\* Bounding rectangles track_box.bounding_rect() may return: positive
\* extents, any origin (a rotated box may stick out of the image).
Boundings == {Rect(20, 30, 40, 20), Rect(-3, 7, 5, 3)}
OneBounding == {Rect(20, 30, 40, 20)}
BoundingRange ==
    {Rect(20, 30, 40, 20)}
        \cup {Rect(x, y, w, h) : x \in {-3, 12}, y \in {-1, 7},
                                 w \in 1..MaxExtent, h \in 1..MaxExtent}

VARIABLES
    pc,                 \* position of main
    stream,             \* "none" | "ok" | "failed": TcpStream::connect
    cap,                \* "none" | "open" | "closed": VideoCapture::new(0)
    registered,         \* on_mouse registered with the window
    selection_status,   \* SelectionStatus {selection, status}
    m,                  \* the frame last read
    is_tracking,
    hist,
    track_window,
    \* what the last loop iteration did
    committed,          \* it took the `if selection_status.status` branch
    seed,               \* the window it passed to camshift (DefaultRect: none)
    bounding,           \* the tracker's bounding rectangle (DefaultRect: none)
    out,                \* the lines it handed to stream.write
    wres,               \* result of stream.write: "none" | "ok" | "err"
    \* history
    drag,               \* the last button-down and the button-up right after it
    lastKind,           \* kind of the last mouse event ("none": no event yet)
    raced,              \* a mouse event ran between the loop's read and clear
    dispatched,         \* some mouse event was dispatched
    everWrote,          \* some line was handed to stream.write
    framesSince,        \* loop iterations since the last mouse event
    commitsSince        \* histogram computations since the last mouse event

vars == <<pc, stream, cap, registered, selection_status, m, is_tracking, hist,
          track_window, committed, seed, bounding, out, wres, drag,
          lastKind, raced, dispatched, everWrote, framesSince, commitsSince>>

loopVars == <<m, is_tracking, hist, track_window, committed, seed, bounding,
              out, wres, everWrote>>
startVars == <<stream, cap, registered>>
histVars == <<drag, lastKind, raced, dispatched, framesSince, commitsSince>>

NoDrag == [phase |-> "none", x0 |-> 0, y0 |-> 0, x1 |-> 0, y1 |-> 0,
           ready0 |-> FALSE, tracking0 |-> FALSE]
NoHist == [frame |-> NoFrame, roi |-> DefaultRect]

Inc(n) == IF n < MaxCount THEN n + 1 ELSE MaxCount

----------------------------------------------------------------------------
\* on_mouse

\* Variant: ready when either extent is positive.
OnMouseSetsOnOr(ss, e, x, y) ==
    IF e = "LButtonDown"
    THEN [ss EXCEPT !.selection.x = x, !.selection.y = y]
    ELSE IF e = "LButtonUp"
    THEN LET w == x - ss.selection.x
             h == y - ss.selection.y
         IN [selection |-> [ss.selection EXCEPT !.width = w, !.height = h],
             status |-> IF w > 0 \/ h > 0 THEN TRUE ELSE ss.status]
    ELSE ss

\* Variant: the button-up branch never sets the flag.
OnMouseNeverReady(ss, e, x, y) ==
    IF e = "LButtonDown"
    THEN [ss EXCEPT !.selection.x = x, !.selection.y = y]
    ELSE IF e = "LButtonUp"
    THEN [ss EXCEPT !.selection.width = x - ss.selection.x,
                    !.selection.height = y - ss.selection.y]
    ELSE ss

\* Variant: a button-down also resets the extents.
OnMouseDownResets(ss, e, x, y) ==
    IF e = "LButtonDown"
    THEN [ss EXCEPT !.selection = Rect(x, y, 0, 0)]
    ELSE IF e = "LButtonUp"
    THEN LET w == x - ss.selection.x
             h == y - ss.selection.y
         IN [selection |-> [ss.selection EXCEPT !.width = w, !.height = h],
             status |-> IF w > 0 /\ h > 0 THEN TRUE ELSE ss.status]
    ELSE ss

\* Variant: a button-down marks the selection ready.
OnMouseReadyOnDown(ss, e, x, y) ==
    IF e = "LButtonDown"
    THEN [selection |-> [ss.selection EXCEPT !.x = x, !.y = y],
          status |-> TRUE]
    ELSE IF e = "LButtonUp"
    THEN LET w == x - ss.selection.x
             h == y - ss.selection.y
         IN [selection |-> [ss.selection EXCEPT !.width = w, !.height = h],
             status |-> IF w > 0 /\ h > 0 THEN TRUE ELSE ss.status]
    ELSE ss

\* Variant: a button-up with a non-positive extent clears the flag.
OnMouseClearsOnDegenerate(ss, e, x, y) ==
    IF e = "LButtonDown"
    THEN [ss EXCEPT !.selection.x = x, !.selection.y = y]
    ELSE IF e = "LButtonUp"
    THEN LET w == x - ss.selection.x
             h == y - ss.selection.y
         IN [selection |-> [ss.selection EXCEPT !.width = w, !.height = h],
             status |-> (w > 0 /\ h > 0)]
    ELSE ss

\* The SelectionStatus after on_mouse(e, x, y, _, data).
on_mouse(ss, e, x, y) ==
    IF e = "LButtonDown"
    THEN [ss EXCEPT !.selection.x = x, !.selection.y = y]
    ELSE IF e = "LButtonUp"
    THEN LET w == x - ss.selection.x
             h == y - ss.selection.y
         IN [selection |-> [ss.selection EXCEPT !.width = w, !.height = h],
             status |-> IF w > 0 /\ h > 0 THEN TRUE ELSE ss.status]
    ELSE ss

\* History of the drag in progress.
DragAfter(e, x, y) ==
    IF e = "LButtonDown"
    THEN [phase |-> "down", x0 |-> x, y0 |-> y, x1 |-> 0, y1 |-> 0,
          ready0 |-> selection_status.status, tracking0 |-> is_tracking]
    ELSE IF e = "LButtonUp" /\ drag.phase = "down"
    THEN [drag EXCEPT !.phase = "up", !.x1 = x, !.y1 = y]
    ELSE NoDrag

\* The window dispatches one mouse event to the callback; this happens
\* inside m.show("Window", 30).
OnMouse(P) ==
    /\ pc = "show"
    /\ registered
    /\ \E e \in EventKinds, p \in P :
          /\ selection_status' = on_mouse(selection_status, e, p[1], p[2])
          /\ drag' = DragAfter(e, p[1], p[2])
          /\ lastKind' = e
    /\ dispatched' = TRUE
    /\ framesSince' = 0
    /\ commitsSince' = 0
    /\ UNCHANGED <<pc, startVars, loopVars, raced>>

----------------------------------------------------------------------------
\* main: startup

\* TcpStream::connect(..).ok().expect(..)
AfterConnect(ok) == IF ok THEN "capture" ELSE "aborted"

\* Variant: the capture device is not checked.
AfterCaptureNoAssert(opened) == "setup"

\* assert!(cap.is_open())
AfterCapture(opened) == IF opened THEN "setup" ELSE "aborted"

Connect ==
    /\ pc = "connect"
    /\ \E ok \in BOOLEAN :
          /\ stream' = IF ok THEN "ok" ELSE "failed"
          /\ pc' = AfterConnect(ok)
    /\ UNCHANGED <<cap, registered, selection_status, loopVars, histVars>>

OpenCapture ==
    /\ pc = "capture"
    /\ \E opened \in BOOLEAN :
          /\ cap' = IF opened THEN "open" ELSE "closed"
          /\ pc' = AfterCapture(opened)
    /\ UNCHANGED <<stream, registered, selection_status, loopVars, histVars>>

\* highgui_named_window, highgui_set_mouse_callback and the loop's locals.
Setup ==
    /\ pc = "setup"
    /\ registered' = TRUE
    /\ m' = NoFrame
    /\ is_tracking' = FALSE
    /\ hist' = NoHist
    /\ track_window' = DefaultRect
    /\ pc' = "loop"
    /\ UNCHANGED <<stream, cap, selection_status, committed, seed, bounding,
                   out, wres, everWrote, histVars>>

----------------------------------------------------------------------------
\* main: the loop

\* Variant: the quotient rounded up.
DivCeil(a, b) == -((-a) \div b)

\* Rust's `/` on i32: the quotient truncated toward zero.
Div(a, b) == IF a >= 0 THEN a \div b ELSE -((-a) \div b)

Digit(d) == CASE d = 0 -> "0" [] d = 1 -> "1" [] d = 2 -> "2" [] d = 3 -> "3"
              [] d = 4 -> "4" [] d = 5 -> "5" [] d = 6 -> "6" [] d = 7 -> "7"
              [] d = 8 -> "8" [] d = 9 -> "9"

RECURSIVE Digits(_)
Digits(n) == IF n < 10 THEN Digit(n) ELSE Digits(n \div 10) \o Digit(n % 10)

\* i32::to_string
to_string(n) == IF n < 0 THEN "-" \o Digits(-n) ELSE Digits(n)

\* Variant: the centroid with halves rounded up.
MsgCeil(b) ==
    to_string(b.x + DivCeil(b.width, 2)) \o " "
        \o to_string(b.y + DivCeil(b.height, 2)) \o " \n"

\* The telemetry line of a bounding rectangle.
Msg(b) ==
    to_string(b.x + Div(b.width, 2)) \o " "
        \o to_string(b.y + Div(b.height, 2)) \o " \n"

\* Variant: a histogram already in use is kept.
CalcHistKeepOld(frame, selection) ==
    IF is_tracking THEN hist ELSE [frame |-> frame, roi |-> selection]

\* hue.roi(selection).calc_hist(.., mask.roi(selection), ..).normalize(..):
\* a function of the frame and of the region alone.
CalcHist(frame, selection) == [frame |-> frame, roi |-> selection]

\* Variant: the commit leaves the flag as it is.
StatusAfterCommitKept(ss) == ss.status

\* selection_status.status = false
StatusAfterCommit(ss) == FALSE

\* Variant: tracking only in the committing iteration.
TrackingAfterOnlyOnCommit(ready) == ready

\* is_tracking after the `if selection_status.status` block.
TrackingAfter(ready) == IF ready THEN TRUE ELSE is_tracking

\* Variant: the tracker's result becomes the tracking window.
WindowAfterFollowsTracker(ready, b) ==
    IF ready THEN selection_status.selection
    ELSE IF is_tracking THEN b ELSE track_window

\* Variant: the selection is never adopted.
WindowAfterNeverAdopts(ready, b) == track_window

\* track_window after the iteration: camshift takes it by value.
WindowAfter(ready, b) ==
    IF ready THEN selection_status.selection ELSE track_window

\* Variant: the tracker is seeded with its own last result.
SearchWindowLastResult(ready) ==
    IF ready THEN selection_status.selection
    ELSE IF is_tracking THEN bounding ELSE track_window

\* The window handed to back_project.camshift(track_window, ..): the local
\* track_window, assigned only by `track_window = selection`.
SearchWindow(ready) ==
    IF ready THEN selection_status.selection ELSE track_window

\* Variant: a line is written in every iteration.
WritesAlways(tracking, b) == <<Msg(b)>>

\* The lines handed to stream.write in one iteration.
Writes(tracking, b) == IF tracking THEN <<Msg(b)>> ELSE <<>>

\* Variant: the result of the write is unwrapped.
AfterWriteUnwrap(wok) == IF wok THEN "show" ELSE "aborted"

\* stream.write(msg.as_bytes()).ok(): the result is dropped and the loop goes
\* on to m.show.
AfterWrite(wok) == "show"

\* One iteration of `loop`, up to and including the call of m.show.
Frame(F, B, W) ==
    /\ pc \in {"loop", "show"}
    /\ \E f \in F, b \in B, wok \in W :
          LET ready == selection_status.status
              tracking == TrackingAfter(ready)
              lines == Writes(tracking, b)
          IN /\ m' = f
             /\ hist' = IF ready
                        THEN CalcHist(f, selection_status.selection)
                        ELSE hist
             /\ track_window' = WindowAfter(ready, b)
             /\ selection_status' =
                   IF ready
                   THEN [selection_status EXCEPT
                            !.status = StatusAfterCommit(selection_status)]
                   ELSE selection_status
             /\ is_tracking' = tracking
             /\ committed' = ready
             /\ seed' = IF tracking THEN SearchWindow(ready) ELSE DefaultRect
             /\ bounding' = IF tracking THEN b ELSE DefaultRect
             /\ out' = lines
             /\ wres' = IF lines = <<>> THEN "none"
                        ELSE IF wok THEN "ok" ELSE "err"
             /\ everWrote' = (everWrote \/ lines # <<>>)
             /\ commitsSince' = IF ready THEN Inc(commitsSince)
                                ELSE commitsSince
             /\ pc' = IF lines = <<>> THEN "show" ELSE AfterWrite(wok)
    /\ framesSince' = Inc(framesSince)
    /\ UNCHANGED <<startVars, drag, lastKind, raced, dispatched>>

----------------------------------------------------------------------------
\* The loop statement by statement, with a callback that may run between any
\* two of them: the host event system dispatching on_mouse concurrently with
\* the loop.  pc = "copy": the flag was read true, the selection not yet
\* copied; "clear": histogram and window set, the flag not yet cleared.

\* cap.read .. `if selection_status.status`
LoopRead(F) ==
    /\ pc \in {"loop", "show"}
    /\ \E f \in F : m' = f
    /\ committed' = selection_status.status
    /\ pc' = IF selection_status.status THEN "copy" ELSE "track"
    /\ raced' = FALSE
    /\ UNCHANGED <<startVars, selection_status, is_tracking, hist,
                   track_window, seed, bounding, out, wres, everWrote, drag,
                   lastKind, dispatched, framesSince, commitsSince>>

\* `let selection = selection_status.selection` .. m.rectangle(selection)
LoopCommit ==
    /\ pc = "copy"
    /\ hist' = CalcHist(m, selection_status.selection)
    /\ track_window' = WindowAfter(TRUE, bounding)
    /\ commitsSince' = Inc(commitsSince)
    /\ pc' = "clear"
    /\ UNCHANGED <<startVars, selection_status, m, is_tracking, committed,
                   seed, bounding, out, wres, everWrote, drag, lastKind,
                   raced, dispatched, framesSince>>

\* selection_status.status = false; is_tracking = true
LoopClear ==
    /\ pc = "clear"
    /\ selection_status' =
          [selection_status EXCEPT
              !.status = StatusAfterCommit(selection_status)]
    /\ is_tracking' = TRUE
    /\ pc' = "track"
    /\ UNCHANGED <<startVars, m, hist, track_window, committed, seed,
                   bounding, out, wres, everWrote, histVars>>

\* `if is_tracking { .. }` and the call of m.show
LoopTrack(B, W) ==
    /\ pc = "track"
    /\ \E b \in B, wok \in W :
          LET lines == Writes(is_tracking, b)
          IN /\ seed' = IF is_tracking THEN track_window ELSE DefaultRect
             /\ bounding' = IF is_tracking THEN b ELSE DefaultRect
             /\ out' = lines
             /\ wres' = IF lines = <<>> THEN "none"
                        ELSE IF wok THEN "ok" ELSE "err"
             /\ everWrote' = (everWrote \/ lines # <<>>)
             /\ pc' = IF lines = <<>> THEN "show" ELSE AfterWrite(wok)
    /\ framesSince' = Inc(framesSince)
    /\ UNCHANGED <<startVars, selection_status, m, is_tracking, hist,
                   track_window, committed, drag, lastKind, raced, dispatched,
                   commitsSince>>

\* on_mouse dispatched at any point of the loop.
OnMouseRace(P) ==
    /\ pc \in {"copy", "clear", "track", "show"}
    /\ registered
    /\ \E e \in EventKinds, p \in P :
          /\ selection_status' = on_mouse(selection_status, e, p[1], p[2])
          /\ drag' = DragAfter(e, p[1], p[2])
          /\ lastKind' = e
    /\ raced' = (raced \/ pc \in {"copy", "clear"})
    /\ dispatched' = TRUE
    /\ framesSince' = 0
    /\ commitsSince' = 0
    /\ UNCHANGED <<pc, startVars, loopVars>>

----------------------------------------------------------------------------

Init ==
    /\ pc = "connect"
    /\ stream = "none"
    /\ cap = "none"
    /\ registered = FALSE
    /\ selection_status = [selection |-> DefaultRect, status |-> FALSE]
    /\ m = NoFrame
    /\ is_tracking = FALSE
    /\ hist = NoHist
    /\ track_window = DefaultRect
    /\ committed = FALSE
    /\ seed = DefaultRect
    /\ bounding = DefaultRect
    /\ out = <<>>
    /\ wres = "none"
    /\ drag = NoDrag
    /\ lastKind = "none"
    /\ raced = FALSE
    /\ dispatched = FALSE
    /\ everWrote = FALSE
    /\ framesSince = 0
    /\ commitsSince = 0

\* The program with every outcome of a frame and a coarse pointer.
Next ==
    Connect \/ OpenCapture \/ Setup \/ Frame(Frames, Boundings, BOOLEAN)
        \/ OnMouse(Points)

Spec == Init /\ [][Next]_vars

\* `loop` has no exit and m.show returns after its 30 ms poll: the next
\* iteration always comes.
SpecLive == Spec /\ WF_vars(Frame(Frames, Boundings, BOOLEAN))

\* The program if the callback could run concurrently with the loop.
NextRace ==
    Connect \/ OpenCapture \/ Setup \/ LoopRead({1}) \/ LoopCommit
        \/ LoopClear \/ LoopTrack(OneBounding, {TRUE}) \/ OnMouseRace(Points)

SpecRace == Init /\ [][NextRace]_vars

\* The program with a fine pointer and one outcome of the tracker.
NextDrag ==
    Connect \/ OpenCapture \/ Setup \/ Frame({1}, OneBounding, BOOLEAN)
        \/ OnMouse(DragPoints)

SpecDrag == Init /\ [][NextDrag]_vars

\* The program with a range of tracker results.
NextTelemetry ==
    Connect \/ OpenCapture \/ Setup \/ Frame({1}, BoundingRange, {TRUE})
        \/ OnMouse(Points)

SpecTelemetry == Init /\ [][NextTelemetry]_vars

----------------------------------------------------------------------------
\* Properties

DragRect == Rect(drag.x0, drag.y0, drag.x1 - drag.x0, drag.y1 - drag.y0)
DragDone == drag.phase = "up"
DragValid == drag.x1 > drag.x0 /\ drag.y1 > drag.y0

\* C1: every rectangle the loop commits (adopts as tracking window because
\* the ready flag is set) has width > 0 and height > 0.
C1_CommittedRectPositive ==
    committed => (track_window.width > 0 /\ track_window.height > 0)

\* C2: a button-down at (x0, y0) immediately followed by a button-up at
\* (x1, y1) with x1 > x0 and y1 > y0 leaves the ready flag true and the
\* pending rectangle {x0, y0, x1 - x0, y1 - y0}, whatever was held before.
C2_ValidDragReady ==
    (DragDone /\ DragValid /\ framesSince = 0)
        => selection_status = [selection |-> DragRect, status |-> TRUE]

C2_Witness ==
    /\ DragDone /\ framesSince = 0
    /\ drag.x0 = 10 /\ drag.y0 = 10 /\ drag.x1 = 60 /\ drag.y1 = 80
    /\ selection_status.status
    /\ selection_status.selection = Rect(10, 10, 50, 70)

\* C3: a button-down followed by a button-up with x1 <= x0 or y1 <= y0,
\* started with the ready flag false, leaves the flag false; the button-up
\* and the loop iteration after it commit nothing and leave tracking window
\* and histogram as they were.
C3_DegenerateDragNotReady ==
    [][ /\ (drag.phase = "down" /\ drag'.phase = "up" /\ ~drag'.ready0
               /\ (drag'.x1 <= drag'.x0 \/ drag'.y1 <= drag'.y0))
           => (/\ ~selection_status'.status
               /\ track_window' = track_window
               /\ hist' = hist
               /\ is_tracking' = is_tracking)
        /\ (DragDone /\ ~DragValid /\ ~drag.ready0
               /\ framesSince = 0 /\ framesSince' = 1)
           => (/\ ~committed'
               /\ ~selection_status'.status
               /\ track_window' = track_window
               /\ hist' = hist) ]_vars

C3_Witness ==
    /\ DragDone /\ ~DragValid /\ ~drag.ready0
    /\ drag.x1 > drag.x0
    /\ framesSince = 1
    /\ is_tracking /\ ~committed
    /\ track_window.width > 0 /\ hist.roi = track_window

\* C4: tracking mode starts Idle, is Tracking after a commit, and never goes
\* back from Tracking to Idle.
C4_TrackingMonotonic ==
    /\ ~is_tracking
    /\ [](committed => is_tracking)
    /\ [][is_tracking => is_tracking']_vars

C4_Witness ==
    /\ is_tracking /\ ~committed
    /\ wres = "err"
    /\ DragDone /\ ~DragValid
    /\ framesSince >= 1

\* C5: histogram and tracking window change only in a loop iteration that
\* starts with the ready flag set and commits; an iteration that starts with
\* the flag false leaves both as they were, also when the tracker ran.
C5_StableBetweenCommits ==
    [][ (hist' # hist \/ track_window' # track_window)
           => (selection_status.status /\ committed' /\ framesSince' >= 1)
      ]_vars

C5_Witness ==
    /\ pc = "show" /\ ~committed
    /\ is_tracking /\ Len(out) = 1
    /\ bounding # track_window

\* C6: an iteration writes one line when tracking mode is active at the
\* tracking step and none when it is Idle; nothing is written before the
\* first commit; button-down(5,5), button-up(5,5) from an Idle, not-ready
\* state leaves the mode Idle with no telemetry.
C6_TelemetryOnlyWhenTracking ==
    /\ pc = "show" => Len(out) = (IF is_tracking THEN 1 ELSE 0)
    /\ ~is_tracking => (~everWrote /\ out = <<>> /\ wres = "none")
    /\ (DragDone /\ drag.x0 = 5 /\ drag.y0 = 5 /\ drag.x1 = 5 /\ drag.y1 = 5
           /\ ~drag.ready0 /\ ~drag.tracking0)
        => (~is_tracking /\ ~everWrote)

C6_Witness ==
    /\ pc = "show" /\ committed /\ is_tracking
    /\ Len(out) = 1 /\ everWrote

\* C7: the line written for a bounding rectangle {x, y, w, h} is
\* "<x + w/2> <y + h/2> \n" with floor division; {20,30,40,20} gives
\* "40 40 \n".
C7_CentroidLine ==
    /\ out # <<>> =>
          out = << ToString(bounding.x + (bounding.width \div 2)) \o " "
                     \o ToString(bounding.y + (bounding.height \div 2))
                     \o " \n" >>
    /\ (is_tracking /\ bounding = Rect(20, 30, 40, 20))
          => out = << "40 40 \n" >>

C7_Witness ==
    /\ bounding = Rect(-3, 7, 3, 1)
    /\ out = << "-2 7 \n" >>

\* C8: a commit while already Tracking sets the tracking window to the new
\* selection and the histogram to the one of the new selection on the
\* current frame; both are functions of the frame and the selection alone,
\* so two executions that differ only in the earlier histogram and tracking
\* window agree on them.
C8_CommitReseeds ==
    [][ (selection_status.status /\ is_tracking /\ framesSince' >= 1)
           => (/\ committed'
               /\ track_window' = selection_status.selection
               /\ hist' = [frame |-> m', roi |-> selection_status.selection])
      ]_vars

C8_Witness ==
    /\ committed /\ framesSince = 1
    /\ DragDone /\ DragValid /\ drag.tracking0
    /\ track_window = DragRect
    /\ hist = [frame |-> 2, roi |-> DragRect] /\ m = 2

\* C9: after a valid drag and no further mouse event, the next iteration
\* computes one histogram on the drag's rectangle, adopts it as tracking
\* window and clears the ready flag, and no later iteration commits again.
C9_OneCommitPerDrag ==
    (DragDone /\ DragValid /\ framesSince >= 1)
        => /\ commitsSince = 1
           /\ track_window = DragRect
           /\ hist.roi = DragRect
           /\ ~selection_status.status
           /\ is_tracking
           /\ committed = (framesSince = 1)
           /\ (drag.x0 = 10 /\ drag.y0 = 10 /\ drag.x1 = 60 /\ drag.y1 = 80)
                 => track_window = Rect(10, 10, 50, 70)

C9_Witness ==
    /\ DragDone /\ framesSince = MaxCount
    /\ drag.x0 = 10 /\ drag.y0 = 10 /\ drag.x1 = 60 /\ drag.y1 = 80
    /\ track_window = Rect(10, 10, 50, 70)
    /\ commitsSince = 1 /\ ~committed

\* C10: if the socket does not connect or the capture device does not open,
\* the process aborts and stays aborted: no frame is read, the callback is
\* not registered, no event is dispatched and nothing is written; the loop
\* runs only with both preconditions met.
C10_FatalStartup ==
    /\ (stream = "failed" \/ cap = "closed")
          => /\ pc = "aborted"
             /\ ~registered /\ ~dispatched
             /\ m = NoFrame /\ framesSince = 0
             /\ ~everWrote /\ out = <<>>
    /\ pc \in {"setup", "loop", "show"} => (stream = "ok" /\ cap = "open")
    /\ stream = "failed" => cap = "none"

C10_Witness ==
    pc = "aborted" /\ stream = "ok" /\ cap = "closed" /\ ~registered

\* C11 as stated: while tracking with no new commit, the window passed to
\* the tracker in an iteration is the bounding rectangle the tracker
\* returned in the iteration before.
C11_SeedIsLastResult ==
    [][ (is_tracking /\ ~selection_status.status /\ framesSince' >= 1)
           => seed' = bounding ]_vars

\* C11 amended: while tracking with no new commit, the window passed to the
\* tracker is the tracking window adopted at the last commit, the same
\* window as in the iteration before; the tracker's result does not become
\* the next seed.
C11_SeedIsCommittedWindow ==
    [][ (is_tracking /\ ~selection_status.status /\ framesSince' >= 1)
           => (seed' = seed /\ seed' = track_window
                  /\ track_window' = track_window) ]_vars

C11_Witness ==
    /\ pc = "show" /\ is_tracking /\ ~committed
    /\ framesSince = 2 /\ commitsSince = 0
    /\ seed = track_window /\ bounding # seed

\* C12: the rectangle the loop commits is the rectangle of one completed
\* drag.  Stated for the commits that directly follow a button-down or a
\* button-down/button-up pair: the pair is a valid drag and the committed
\* rectangle is {x0, y0, x1 - x0, y1 - y0}.
C12_CommittedRectIsOneDrag ==
    [][ (drag.phase # "none" /\ framesSince = 0 /\ framesSince' = 1
            /\ committed')
           => (DragDone /\ DragValid /\ track_window' = DragRect) ]_vars

\* C13: with callbacks dispatched only inside m.show, a set ready flag stays
\* set until the loop reads it, the next iteration commits the pending
\* rectangle and clears the flag, the flag is cleared only by a committing
\* iteration, and every set of the flag is eventually followed by a commit.
C13_NoReadySelectionLost ==
    /\ [][ selection_status.status
              => IF framesSince' >= 1
                 THEN /\ committed' /\ ~selection_status'.status
                      /\ track_window' = selection_status.selection
                 ELSE selection_status'.status ]_vars
    /\ [][ (selection_status.status /\ ~selection_status'.status)
              => (committed' /\ framesSince' >= 1) ]_vars
    /\ (selection_status.status
           ~> (committed /\ ~selection_status.status))

C13_Witness ==
    /\ committed /\ ~selection_status.status
    /\ framesSince = 1
    /\ drag.phase = "none" /\ dispatched
    /\ track_window = selection_status.selection
    /\ track_window.width > 0

\* C15: an iteration that writes ends, whether the write fails or succeeds,
\* at m.show in Tracking mode with the same tracking window, histogram and
\* selection state; it hands exactly one line to the socket, the line of its
\* own bounding rectangle, also when the write before it failed.
C15_WriteFailureIgnored ==
    [][ (framesSince' >= 1 /\ wres' # "none")
           => /\ pc' = "show"
              /\ is_tracking'
              /\ track_window' = (IF selection_status.status
                                  THEN selection_status.selection
                                  ELSE track_window)
              /\ hist' = (IF selection_status.status
                          THEN [frame |-> m', roi |-> selection_status.selection]
                          ELSE hist)
              /\ selection_status' =
                    [selection_status EXCEPT !.status = FALSE]
              /\ out' = << ToString(bounding'.x + (bounding'.width \div 2))
                             \o " "
                             \o ToString(bounding'.y + (bounding'.height \div 2))
                             \o " \n" >> ]_vars

C15_Witness ==
    /\ pc = "show" /\ wres = "err"
    /\ is_tracking /\ ~committed
    /\ framesSince = 2 /\ commitsSince = 0
    /\ bounding = Rect(-3, 7, 5, 3) /\ out = << "-1 8 \n" >>

\* A step that dispatches a mouse event; a loop iteration.
MouseStep == pc = "show" /\ framesSince' = 0
LoopStep == framesSince' >= 1

\* C16: a button-down changes only the pending rectangle's origin, to the
\* event's position; an event other than button-down and button-up leaves
\* the SelectionStatus unchanged; no mouse event changes tracking mode,
\* tracking window or histogram.
C16_CallbackFrame ==
    [][ MouseStep
           => /\ lastKind' = "LButtonDown"
                    => selection_status' =
                          [selection_status EXCEPT !.selection.x = drag'.x0,
                                                   !.selection.y = drag'.y0]
              /\ lastKind' \notin {"LButtonDown", "LButtonUp"}
                    => selection_status' = selection_status
              /\ is_tracking' = is_tracking
              /\ track_window' = track_window
              /\ hist' = hist ]_vars

C16_Witness ==
    /\ lastKind = "LButtonDown" /\ framesSince = 0
    /\ selection_status.status
    /\ selection_status.selection = Rect(10, 10, 5, 5)
    /\ is_tracking /\ track_window = Rect(5, 5, 5, 5)

\* C17: the ready flag goes from false to true only in a button-up event
\* and from true to false only in a committing loop iteration; the pending
\* rectangle changes only in a mouse event.
C17_SelectionStatusOwnership ==
    [][ /\ (~selection_status.status /\ selection_status'.status)
              => (MouseStep /\ lastKind' = "LButtonUp")
        /\ (selection_status.status /\ ~selection_status'.status)
              => (LoopStep /\ committed')
        /\ selection_status'.selection # selection_status.selection
              => MouseStep
        /\ LoopStep
              => (/\ selection_status'.selection = selection_status.selection
                  /\ (selection_status'.status => selection_status.status))
        /\ MouseStep
              => (selection_status.status => selection_status'.status) ]_vars

C17_Witness ==
    /\ committed /\ ~selection_status.status
    /\ lastKind = "LButtonUp" /\ framesSince = 1
    /\ track_window = selection_status.selection

\* C14: with the callback running concurrently with the loop, the loop can
\* clear the flag of a valid drag it did not commit (the witness); when it
\* clears the flag with the last completed valid drag not committed, a mouse
\* event ran between its read of the flag and the clear.
C14_LossOnlyByRace ==
    [][ (pc = "clear" /\ pc' = "track" /\ DragDone /\ DragValid
            /\ track_window # DragRect)
           => raced ]_vars

C14_Witness ==
    /\ pc = "track" /\ raced /\ committed
    /\ DragDone /\ DragValid
    /\ selection_status = [selection |-> DragRect, status |-> FALSE]
    /\ track_window # DragRect

====
